---- MODULE Spec2Model ----
(***************************************************************************)
(* Issue priority scoring engine of the Urban Issue Reporter               *)
(* (app/services/priority_scoring.py, app/models/models.py,                *)
(* app/routes/priority_routes.py).                                         *)
(*                                                                         *)
(* Scores are Python floats with at most two decimals; they are kept here  *)
(* as integers in hundredths (7.0 is 700).  Values with more decimals are  *)
(* kept as exact fractions num/den of a hundredth until they are rounded.  *)
(*                                                                         *)
(* The store is the external collaborator: each statement the code issues  *)
(* (SELECT / UPDATE / INSERT / find_one / update_one / insert_one) is one   *)
(* atomic step with the meaning the statement has as written, and the      *)
(* unique indexes declared by init_db are enforced by the store.           *)
(***************************************************************************)
EXTENDS Integers, Sequences, FiniteSets, TLC

\* ------------------------------------------------------------------------
\* Bounds of the model
\* ------------------------------------------------------------------------
MaxOps == 2

Procs == {1, 2}
IssueIds == {1, 2}
\* an id no issue of the store has
UnknownId == Cardinality(IssueIds) + 1
RequestIds == IssueIds \cup {UnknownId}
VotedIds == {1, UnknownId}
ResolvableIds == {2}
Users == {1, 2}
Reporters == {1}
Ratings == {1, 9, 11}

\* An optional value (None or a value) is <<>> or <<value>>.
None == <<>>
Some(x) == <<x>>

\* ------------------------------------------------------------------------
\* Arithmetic helpers
\* ------------------------------------------------------------------------
Min(a, b) == IF a <= b THEN a ELSE b
Max(a, b) == IF a >= b THEN a ELSE b

\* min(10.0, max(1.0, x)) on hundredths
Clamp(x) == Min(1000, Max(100, x))

\* round(x, 2) for x = num/den hundredths, x >= 0: nearest, ties to even.
\* Python rounds the binary double, so at an exact decimal tie (x.xx5) the
\* double may lie on either side; the values of Init have no such tie.
Round2(num, den) ==
    LET q == num \div den
        r == num % den
    IN  IF 2 * r < den THEN q
        ELSE IF 2 * r > den THEN q + 1
        ELSE IF q % 2 = 0 THEN q ELSE q + 1

RECURSIVE SumSeq(_)
SumSeq(s) == IF s = <<>> THEN 0 ELSE Head(s) + SumSeq(Tail(s))

\* ------------------------------------------------------------------------
\* Text: a lower-cased text is the set of words it consists of; `kw in text`
\* is a substring test, so a keyword is found when some word of the text
\* contains it.  KeywordsIn gives, for the words used in the model, the
\* keywords of the code's lists that are substrings of the word.
\* ------------------------------------------------------------------------
KeywordsIn(word) ==
    CASE word = "dangerous"  -> {"danger", "dangerous"}
      [] word = "broken"     -> {"broke", "broken"}
      [] word = "blocked"    -> {"blocked", "block"}
      [] word = "urgent"     -> {"urgent"}
      [] word = "minor"      -> {"minor"}
      [] word = "leak"       -> {"leak"}
      [] word = "traffic"    -> {"traffic"}
      [] word = "shop"       -> {"shop"}
      [] word = "main"       -> {"main"}
      [] word = "avenue"     -> {"avenue"}
      [] word = "street"     -> {"street"}
      [] word = "highway"    -> {"highway"}
      [] word = "lane"       -> {"lane"}
      [] word = "alley"      -> {"alley"}
      [] word = "hospital"   -> {"hospital"}
      [] word = "school"     -> {"school"}
      [] word = "market"     -> {"market"}
      [] OTHER               -> {}

Found(keyword, text) == \E w \in text : keyword \in KeywordsIn(w)

CountFound(keywords, text) == Cardinality({k \in keywords : Found(k, text)})

AnyFound(keywords, text) == \E k \in keywords : Found(k, text)

\* ------------------------------------------------------------------------
\* PriorityScoring
\* ------------------------------------------------------------------------
\* a weight map whose entries add up to 1.10
WEIGHTS_Heavy ==
    [severity |-> 45, location |-> 25, reports_count |-> 15,
     age |-> 15, safety_impact |-> 10]

WEIGHTS ==
    [severity |-> 35, location |-> 25, reports_count |-> 15,
     age |-> 15, safety_impact |-> 10]

FACILITY_BONUSES ==
    [hospital |-> 300, school |-> 250, emergency_services |-> 300,
     public_transport |-> 200, shopping_center |-> 150,
     government_building |-> 180]

category_scores(category) ==
    CASE category = "road"        -> 700
      [] category = "water"       -> 800
      [] category = "electricity" -> 900
      [] category = "dustbin"     -> 400
      [] category = "transport"   -> 600
      [] category = "others"      -> 500
      [] OTHER                    -> 500

high_severity_keywords ==
    {"emergency", "urgent", "danger", "accident", "broke", "burst",
     "flood", "fire", "electrical", "gas", "leak", "blocked",
     "collapsed", "severe", "major", "critical"}

medium_severity_keywords ==
    {"damage", "problem", "issue", "concern", "repair", "fix",
     "maintenance", "replace", "broken"}

low_severity_keywords ==
    {"minor", "small", "slight", "cosmetic", "aesthetic",
     "request", "suggestion", "improvement"}

\* issue_data: [category, text, address, id, latitude, created_at,
\*              ai_severity_score, citizen_severity_votes]
\* citizen_severity_votes is <<>> when the key is absent from the dict.
calculate_severity_score(issue_data) ==
    LET severity_modifier ==
              200 * CountFound(high_severity_keywords, issue_data.text)
            + 50 * CountFound(medium_severity_keywords, issue_data.text)
            - 100 * CountFound(low_severity_keywords, issue_data.text)
        base1 == Clamp(category_scores(issue_data.category) + severity_modifier)
        votes == issue_data.citizen_severity_votes
        n == Len(votes)
        \* base_score*0.7 + avg*0.3 as a fraction of a hundredth
        num2 == IF n > 0 THEN 7 * base1 * n + 300 * SumSeq(votes) ELSE base1
        den2 == IF n > 0 THEN 10 * n ELSE 1
        \* `if image_severity:` is false for None (<<>>) and for 0.0
        ai == issue_data.ai_severity_score
        hasAi == ai # <<>> /\ ai # <<0>>
        \* base_score*0.8 + image_severity*0.2
        num3 == IF hasAi THEN 8 * num2 + 2 * ai[1] * den2 ELSE num2
        den3 == IF hasAi THEN 10 * den2 ELSE den2
    IN  Round2(Min(1000 * den3, Max(100 * den3, num3)), den3)

\* the facility bonuses added up without the cap at 3.0
_calculate_facility_proximity_bonus_Uncapped(address) ==
      (IF AnyFound({"hospital", "medical", "clinic"}, address)
          THEN FACILITY_BONUSES.hospital ELSE 0)
    + (IF AnyFound({"school", "college", "university", "education"}, address)
          THEN FACILITY_BONUSES.school ELSE 0)
    + (IF AnyFound({"police", "fire station", "emergency"}, address)
          THEN FACILITY_BONUSES.emergency_services ELSE 0)
    + (IF AnyFound({"bus stop", "metro", "station", "transport"}, address)
          THEN FACILITY_BONUSES.public_transport ELSE 0)
    + (IF AnyFound({"mall", "market", "shopping", "commercial"}, address)
          THEN FACILITY_BONUSES.shopping_center ELSE 0)
    + (IF AnyFound({"government", "municipal", "office", "admin"}, address)
          THEN FACILITY_BONUSES.government_building ELSE 0)

_calculate_facility_proximity_bonus(address) ==
    LET bonus ==
          (IF AnyFound({"hospital", "medical", "clinic"}, address)
              THEN FACILITY_BONUSES.hospital ELSE 0)
        + (IF AnyFound({"school", "college", "university", "education"}, address)
              THEN FACILITY_BONUSES.school ELSE 0)
        + (IF AnyFound({"police", "fire station", "emergency"}, address)
              THEN FACILITY_BONUSES.emergency_services ELSE 0)
        + (IF AnyFound({"bus stop", "metro", "station", "transport"}, address)
              THEN FACILITY_BONUSES.public_transport ELSE 0)
        + (IF AnyFound({"mall", "market", "shopping", "commercial"}, address)
              THEN FACILITY_BONUSES.shopping_center ELSE 0)
        + (IF AnyFound({"government", "municipal", "office", "admin"}, address)
              THEN FACILITY_BONUSES.government_building ELSE 0)
    IN  Min(300, bonus)

calculate_location_score(address) ==
    LET road_type_score ==
            IF AnyFound({"highway", "expressway", "freeway"}, address) THEN 1000
            ELSE IF AnyFound({"main", "avenue", "boulevard"}, address) THEN 800
            ELSE IF AnyFound({"street", "road", "drive"}, address) THEN 600
            ELSE IF AnyFound({"lane", "circle", "court"}, address) THEN 400
            ELSE IF AnyFound({"private", "alley"}, address) THEN 200
            ELSE 500
    IN  Min(1000, road_type_score + _calculate_facility_proximity_bonus(address))

\* calculate_distance for two points on one meridian (all issues of the model
\* share one longitude): a = sin^2(dphi/2), c = |dphi|, so the distance is
\* R * |dphi| = 6371000 * pi/180 m per degree = 111.195 mm per micro-degree.
\* Latitudes are in micro-degrees, the result is in millimetres.
calculate_distance(lat1, lat2) ==
    LET d == IF lat2 >= lat1 THEN lat2 - lat1 ELSE lat1 - lat2
    IN  (d * 111195) \div 1000

\* similar_issues: SELECT ... FROM issues WHERE id != ? AND status != 'resolved'
similar_issues(issue_id, store) ==
    {j \in DOMAIN store : j # issue_id /\ store[j].status # "resolved"}

\* the buckets with `<` where the code has `<=`
calculate_reports_count_score_Strict(issue_id, latitude, store) ==
    LET duplicate_count ==
            Cardinality({j \in similar_issues(issue_id, store) :
                calculate_distance(latitude, store[j].latitude) <= 100000})
        score == IF duplicate_count = 0 THEN 100
                 ELSE IF duplicate_count < 2 THEN 300
                 ELSE IF duplicate_count < 5 THEN 600
                 ELSE IF duplicate_count < 10 THEN 800
                 ELSE 1000
    IN  <<score, duplicate_count>>

\* Returns <<score, duplicate_count>>
calculate_reports_count_score(issue_id, latitude, store) ==
    LET duplicate_count ==
            Cardinality({j \in similar_issues(issue_id, store) :
                calculate_distance(latitude, store[j].latitude) <= 100000})
        score == IF duplicate_count = 0 THEN 100
                 ELSE IF duplicate_count <= 2 THEN 300
                 ELSE IF duplicate_count <= 5 THEN 600
                 ELSE IF duplicate_count <= 10 THEN 800
                 ELSE 1000
    IN  <<score, duplicate_count>>

\* created_at is [kind, day]: kind "iso" is an ISO-format string of that day,
\* kind "datetime" is a datetime object (what Issue.create stores; its
\* .replace('Z', '+00:00') raises TypeError), kind "bad" is an unparsable
\* string.  The bare except replaces the date by datetime.now().
\* the except branch falling back to day 0 instead of datetime.now()
calculate_age_score_EpochFallback(created_at, today) ==
    LET created_date == IF created_at.kind = "iso" THEN created_at.day ELSE 0
        age_days == today - created_date
    IN  IF age_days <= 1 THEN 200
        ELSE IF age_days <= 7 THEN 300
        ELSE IF age_days <= 30 THEN 500
        ELSE IF age_days <= 90 THEN 700
        ELSE IF age_days <= 180 THEN 850
        ELSE 1000

calculate_age_score(created_at, today) ==
    LET created_date == IF created_at.kind = "iso" THEN created_at.day ELSE today
        age_days == today - created_date
    IN  IF age_days <= 1 THEN 200
        ELSE IF age_days <= 7 THEN 300
        ELSE IF age_days <= 30 THEN 500
        ELSE IF age_days <= 90 THEN 700
        ELSE IF age_days <= 180 THEN 850
        ELSE 1000

high_impact_keywords ==
    {"accident", "traffic", "block", "congestion", "jam",
     "dangerous", "hazard", "unsafe", "risk", "injury",
     "emergency", "ambulance", "fire truck", "police"}

economic_keywords ==
    {"business", "commerce", "shop", "delivery", "truck",
     "transport", "goods", "supply", "economic", "revenue"}

category_impact(category) ==
    CASE category = "road"        -> 300
      [] category = "electricity" -> 400
      [] category = "water"       -> 350
      [] category = "transport"   -> 300
      [] category = "dustbin"     -> 100
      [] category = "others"      -> 200
      [] OTHER                    -> 200

calculate_safety_impact_score(issue_data) ==
    LET safety_modifier ==
              150 * CountFound(high_impact_keywords, issue_data.text)
            + 100 * CountFound(economic_keywords, issue_data.text)
    IN  Clamp(500 + safety_modifier + category_impact(issue_data.category))

\* the five factors added up without their weights
weighted_final_score_Unweighted(severity_score, location_score, reports_score, age_score, safety_score) ==
    100 * (severity_score + location_score + reports_score + age_score
           + safety_score)

\* final_score = severity_score * WEIGHTS['severity'] + ... (before rounding),
\* in 1/10000: score hundredths times weight hundredths
weighted_final_score(severity_score, location_score, reports_score, age_score, safety_score) ==
      severity_score * WEIGHTS.severity
    + location_score * WEIGHTS.location
    + reports_score * WEIGHTS.reports_count
    + age_score * WEIGHTS.age
    + safety_score * WEIGHTS.safety_impact

\* the level is taken from final_score before it is rounded
calculate_overall_priority_score(issue_data, store, today) ==
    LET severity_score == calculate_severity_score(issue_data)
        location_score == calculate_location_score(issue_data.address)
        reports == calculate_reports_count_score(
                       issue_data.id, issue_data.latitude, store)
        age_score == calculate_age_score(issue_data.created_at, today)
        safety_score == calculate_safety_impact_score(issue_data)
        final_score ==
            weighted_final_score(severity_score, location_score, reports[1],
                                 age_score, safety_score)
        priority_level ==
            IF final_score >= 80000 THEN "critical"
            ELSE IF final_score >= 65000 THEN "high"
            ELSE IF final_score >= 45000 THEN "medium"
            ELSE IF final_score >= 25000 THEN "low"
            ELSE "very_low"
    IN  [final_score |-> Round2(final_score, 100),
         priority_level |-> priority_level,
         factor_scores |->
             [severity |-> severity_score, location |-> location_score,
              reports_count |-> reports[1], age |-> age_score,
              safety_impact |-> safety_score],
         weights |-> WEIGHTS,
         duplicate_count |-> reports[2],
         calculation_timestamp |-> today]

\* ------------------------------------------------------------------------
\* State
\* ------------------------------------------------------------------------
VARIABLES
    issues,             \* issues collection: id -> document
    citizen_votes,      \* citizen_votes rows, in insertion order
    duplicate_reports,  \* duplicate_reports rows, in insertion order
    priority_logs,      \* priority_logs rows, in insertion order
    now,                \* current day
    pc,                 \* per request worker: position in its handler
    req,                \* per request worker: the request it handles
    loc,                \* per request worker: local variables of the handler
    result,             \* per request worker: outcome of the finished handler
    hist,               \* per request worker: store events of the handler so far
    opsStarted,         \* number of requests started
    user_upvotes,       \* user_upvotes rows, in insertion order
    requests,           \* RateLimiter.requests: (client, endpoint) -> timestamps
    last_cleanup,       \* RateLimiter.last_cleanup
    current_time,       \* the clock read by the rate limiter, in seconds
    limit,              \* the limit the rate_limit decorator was given
    window,             \* the window the rate_limit decorator was given
    admitted,           \* every request is_allowed has admitted: key and time
    returned            \* what the is_allowed calls returned, in order

\* the state of the rate limiter
limiterVars == <<requests, last_cleanup, current_time, limit, window,
                 admitted, returned>>

\* the state of the priority engine and its request workers
engineVars == <<issues, citizen_votes, duplicate_reports, priority_logs, now,
                pc, req, loc, result, hist, opsStarted>>

vars == <<engineVars, user_upvotes, limiterVars>>

store == <<issues, citizen_votes, duplicate_reports, priority_logs>>

NoReq == [name |-> "none", issue_id |-> 0, duplicate_issue_id |-> 0,
          user_id |-> 0, rating |-> 0]

NoLoc == [existing |-> None, issue |-> None, priority_data |-> None,
          current |-> None, queue |-> <<>>, todo |-> <<>>, updated_count |-> 0]

\* Issue.create: the priority fields of a new issue
NewIssue(category, text, address, latitude, day) ==
    [category |-> category, text |-> text, address |-> address,
     status |-> "pending", latitude |-> latitude,
     created_at |-> [kind |-> "datetime", day |-> day],
     upvotes |-> 0,
     priority_score |-> 500, priority_level |-> "medium",
     priority_breakdown |-> None, ai_severity_score |-> None]

\* the clients and endpoints the rate limiter sees
Clients == {"10.0.0.1", "10.0.0.2"}
Endpoints == {"login", "report_issue"}
Keys == Clients \X Endpoints

\* RateLimiter.__init__ with nothing recorded, behind a route decorated with
\* the defaults rate_limit(limit=100, window=3600)
LimiterIdle ==
    /\ requests = [k \in Keys |-> <<>>]
    /\ last_cleanup = 0
    /\ current_time = 0
    /\ limit = 100
    /\ window = 3600
    /\ admitted = <<>>
    /\ returned = <<>>

\* a step of the priority engine leaves the upvotes and the rate limiter alone
EngineOnly == UNCHANGED <<user_upvotes, limiterVars>>

Init ==
    /\ issues = [i \in IssueIds |->
                    IF i = 1
                    THEN NewIssue("road", {"blocked"}, {"main", "avenue"}, 0, 0)
                    ELSE NewIssue("water", {"leak", "minor"}, {"lane"}, 500, 150)]
    /\ citizen_votes = <<>>
    /\ duplicate_reports = <<>>
    /\ priority_logs = <<>>
    /\ now = 200
    /\ pc = [p \in Procs |-> "idle"]
    /\ req = [p \in Procs |-> NoReq]
    /\ loc = [p \in Procs |-> NoLoc]
    /\ result = [p \in Procs |-> "none"]
    /\ hist = [p \in Procs |-> <<>>]
    /\ opsStarted = 0
    /\ user_upvotes = <<>>
    /\ LimiterIdle

\* a dict in which the stored priority_score stands in for a missing AI score
IssueData_Feedback(id, doc) ==
    [id |-> id, category |-> doc.category, text |-> doc.text,
     address |-> doc.address, latitude |-> doc.latitude,
     created_at |-> doc.created_at,
     ai_severity_score |-> IF doc.ai_severity_score = None
                           THEN Some(doc.priority_score)
                           ELSE doc.ai_severity_score,
     citizen_severity_votes |-> <<>>]

\* dict(issue) / Issue._doc_to_dict(issue): the dict handed to the scorer.
\* Neither builds a 'citizen_severity_votes' key, so .get(..., []) is [].
IssueData(id, doc) ==
    [id |-> id, category |-> doc.category, text |-> doc.text,
     address |-> doc.address, latitude |-> doc.latitude,
     created_at |-> doc.created_at,
     ai_severity_score |-> doc.ai_severity_score,
     citizen_severity_votes |-> <<>>]

\* an update that sets the score and the breakdown but leaves the level
SetPriority_KeepLevel(coll, id, priority_data) ==
    [coll EXCEPT ![id].priority_score = priority_data.final_score,
                 ![id].priority_breakdown = Some(priority_data)]

\* UPDATE issues SET priority_score, priority_level, priority_breakdown
SetPriority(coll, id, priority_data) ==
    [coll EXCEPT ![id].priority_score = priority_data.final_score,
                 ![id].priority_level = priority_data.priority_level,
                 ![id].priority_breakdown = Some(priority_data)]

Event(ev, id) == [ev |-> ev, id |-> id]

\* a request is taken by the first worker that is idle or has sent its
\* previous response
Free(p) == pc[p] \in {"idle", "done"}

Begin(p, r) ==
    /\ Free(p)
    /\ \A q \in Procs : q < p => ~Free(q)
    /\ opsStarted < MaxOps
    /\ opsStarted' = opsStarted + 1
    /\ req' = [req EXCEPT ![p] = r]

Finish(p, res) ==
    /\ pc' = [pc EXCEPT ![p] = "done"]
    /\ result' = [result EXCEPT ![p] = res]

\* ------------------------------------------------------------------------
\* CitizenVoting._recalculate_issue_priority(issue_id), run for the ids of
\* loc.queue one after the other
\* ------------------------------------------------------------------------
\* What follows the handling of the head of the queue: the next recompute,
\* or `return True` of the calling operation.
NextRecalc(p) ==
    /\ IF Tail(loc[p].queue) = <<>>
       THEN Finish(p, "success")
       ELSE /\ pc' = [pc EXCEPT ![p] = "rc_select"]
            /\ UNCHANGED result
    /\ loc' = [loc EXCEPT ![p].queue = Tail(@), ![p].issue = None,
                          ![p].priority_data = None]

\* a recompute that creates a record for an id the store does not have
RecalcSelect_Upsert(p) ==
    /\ pc[p] = "rc_select"
    /\ LET id == Head(loc[p].queue) IN
         /\ hist' = [hist EXCEPT ![p] = Append(@, Event("recompute", id))]
         /\ IF id \in DOMAIN issues
            THEN /\ loc' = [loc EXCEPT ![p].issue = Some(issues[id])]
                 /\ pc' = [pc EXCEPT ![p] = "rc_calc"]
                 /\ UNCHANGED <<result, issues>>
            ELSE /\ issues' = Append(issues, NewIssue("others", {}, {}, 0, now))
                 /\ NextRecalc(p)
    /\ UNCHANGED <<citizen_votes, duplicate_reports, priority_logs, now, req,
                   opsStarted>>

\* issue = SELECT * FROM issues WHERE id = ?;  `if issue:` skips unknown ids
RecalcSelect(p) ==
    /\ pc[p] = "rc_select"
    /\ LET id == Head(loc[p].queue) IN
         /\ hist' = [hist EXCEPT ![p] = Append(@, Event("recompute", id))]
         /\ IF id \in DOMAIN issues
            THEN /\ loc' = [loc EXCEPT ![p].issue = Some(issues[id])]
                 /\ pc' = [pc EXCEPT ![p] = "rc_calc"]
                 /\ UNCHANGED result
            ELSE NextRecalc(p)
    /\ UNCHANGED <<store, now, req, opsStarted>>

\* priority_data = PriorityScoring.calculate_overall_priority_score(dict(issue))
RecalcCalc(p) ==
    /\ pc[p] = "rc_calc"
    /\ LET id == Head(loc[p].queue) IN
         loc' = [loc EXCEPT ![p].priority_data =
                    Some(calculate_overall_priority_score(
                             IssueData(id, loc[p].issue[1]), issues, now))]
    /\ pc' = [pc EXCEPT ![p] = "rc_update"]
    /\ UNCHANGED <<store, now, req, result, hist, opsStarted>>

\* UPDATE issues SET priority_score = ?, ... WHERE id = ?; conn.commit()
RecalcUpdate(p) ==
    /\ pc[p] = "rc_update"
    /\ LET id == Head(loc[p].queue) IN
         /\ issues' = SetPriority(issues, id, loc[p].priority_data[1])
         /\ hist' = [hist EXCEPT ![p] = Append(@, Event("persist", id))]
    /\ NextRecalc(p)
    /\ UNCHANGED <<citizen_votes, duplicate_reports, priority_logs, now, req,
                   opsStarted>>

\* ------------------------------------------------------------------------
\* POST /api/vote/severity: vote_severity, CitizenVoting.submit_severity_vote
\* ------------------------------------------------------------------------
\* a range check that forgets the upper limit
ValidRating_NoUpper(r) == 1 <= r

\* `1 <= severity_rating <= 10` (the route also rejects a falsy rating)
ValidRating(r) == 1 <= r /\ r <= 10

\* the recompute after the vote, issued twice
VoteRecalcs_Twice(i) == <<i, i>>

\* after conn.commit(): CitizenVoting._recalculate_issue_priority(issue_id)
VoteRecalcs(i) == <<i>>

\* SELECT id FROM citizen_votes WHERE issue_id = ? AND user_id = ?
\*   AND vote_type = 'severity'; fetchone()
FindVote(rows, issue_id, user_id) ==
    LET hits == {k \in 1..Len(rows) :
                    /\ rows[k].issue_id = issue_id
                    /\ rows[k].user_id = user_id
                    /\ rows[k].vote_type = "severity"}
    IN  IF hits = {} THEN None
        ELSE Some(CHOOSE k \in hits : \A h \in hits : k <= h)

\* citizen_votes without its unique index: every insert is admitted
citizen_votes_unique_Missing(rows, row) == TRUE

\* unique index (issue_id, user_id, vote_type) on citizen_votes
citizen_votes_unique(rows, row) ==
    \A k \in 1..Len(rows) :
        ~ /\ rows[k].issue_id = row.issue_id
          /\ rows[k].user_id = row.user_id
          /\ rows[k].vote_type = row.vote_type

\* the rating fails validation: rejected by the route (400) before the store
\* is touched; submit_severity_vote itself would `return False` first thing
VoteReject(p, i, u, r) ==
    /\ ~ValidRating(r)
    /\ Begin(p, [NoReq EXCEPT !.name = "vote_severity", !.issue_id = i,
                              !.user_id = u, !.rating = r])
    /\ Finish(p, "rejected")
    /\ loc' = [loc EXCEPT ![p] = NoLoc]
    /\ hist' = [hist EXCEPT ![p] = <<>>]
    /\ UNCHANGED <<store, now>>

\* existing_vote = SELECT ... fetchone()
VoteSelect(p, i, u, r) ==
    /\ ValidRating(r)
    /\ Begin(p, [NoReq EXCEPT !.name = "vote_severity", !.issue_id = i,
                              !.user_id = u, !.rating = r])
    /\ loc' = [loc EXCEPT ![p] =
                  [NoLoc EXCEPT !.existing = FindVote(citizen_votes, i, u)]]
    /\ hist' = [hist EXCEPT ![p] = <<>>]
    /\ pc' = [pc EXCEPT ![p] = "vote_write"]
    /\ result' = [result EXCEPT ![p] = "none"]
    /\ UNCHANGED <<store, now>>

\* UPDATE the existing row, or INSERT a new one; conn.commit().  An INSERT
\* that violates the unique index raises, and the except branch returns False.
VoteWrite(p) ==
    /\ pc[p] = "vote_write"
    /\ LET r == req[p]
           row == [issue_id |-> r.issue_id, user_id |-> r.user_id,
                   vote_type |-> "severity", rating |-> r.rating]
       IN
         IF loc[p].existing # None
         THEN /\ citizen_votes' =
                    [citizen_votes EXCEPT ![loc[p].existing[1]].rating = r.rating]
              /\ hist' = [hist EXCEPT ![p] =
                            Append(@, Event("vote_update", r.issue_id))]
              /\ loc' = [loc EXCEPT ![p].queue = VoteRecalcs(r.issue_id)]
              /\ pc' = [pc EXCEPT ![p] = "rc_select"]
              /\ UNCHANGED result
         ELSE IF citizen_votes_unique(citizen_votes, row)
         THEN /\ citizen_votes' = Append(citizen_votes, row)
              /\ hist' = [hist EXCEPT ![p] =
                            Append(@, Event("vote_insert", r.issue_id))]
              /\ loc' = [loc EXCEPT ![p].queue = VoteRecalcs(r.issue_id)]
              /\ pc' = [pc EXCEPT ![p] = "rc_select"]
              /\ UNCHANGED result
         ELSE /\ Finish(p, "failed")
              /\ UNCHANGED <<citizen_votes, hist, loc>>
    /\ UNCHANGED <<issues, duplicate_reports, priority_logs, now, req,
                   opsStarted>>

\* ------------------------------------------------------------------------
\* POST /api/vote/duplicate: mark_duplicate, CitizenVoting.mark_duplicate
\* ------------------------------------------------------------------------
\* a route without the self-reference check
SelfDuplicate_Unchecked(i, d) == FALSE

\* `if issue_id == duplicate_issue_id:` of the route
SelfDuplicate(i, d) == i = d

\* only the first issue is recomputed
MarkRecalcs_FirstOnly(i, d) == <<i>>

\* after conn.commit(): _recalculate_issue_priority(issue_id), then
\* _recalculate_issue_priority(duplicate_issue_id)
MarkRecalcs(i, d) == <<i, d>>

\* a plain INSERT into a collection without the unique index
insert_or_ignore_Plain(rows, row) == Append(rows, row)

\* INSERT OR IGNORE INTO duplicate_reports under the unique index
\* (issue_id, duplicate_issue_id)
insert_or_ignore(rows, row) ==
    IF \E k \in 1..Len(rows) :
            /\ rows[k].issue_id = row.issue_id
            /\ rows[k].duplicate_issue_id = row.duplicate_issue_id
    THEN rows
    ELSE Append(rows, row)

\* the route answers 400 'Cannot mark issue as duplicate of itself'
MarkReject(p, i, d, u) ==
    /\ SelfDuplicate(i, d)
    /\ Begin(p, [NoReq EXCEPT !.name = "mark_duplicate", !.issue_id = i,
                              !.duplicate_issue_id = d, !.user_id = u])
    /\ Finish(p, "rejected")
    /\ loc' = [loc EXCEPT ![p] = NoLoc]
    /\ hist' = [hist EXCEPT ![p] = <<>>]
    /\ UNCHANGED <<store, now>>

\* INSERT OR IGNORE ...; conn.commit(); then both recomputes
MarkInsert(p, i, d, u) ==
    /\ ~SelfDuplicate(i, d)
    /\ Begin(p, [NoReq EXCEPT !.name = "mark_duplicate", !.issue_id = i,
                              !.duplicate_issue_id = d, !.user_id = u])
    /\ LET row == [issue_id |-> i, duplicate_issue_id |-> d, reported_by |-> u]
       IN  /\ duplicate_reports' = insert_or_ignore(duplicate_reports, row)
           /\ hist' = [hist EXCEPT ![p] =
                         <<Event(IF duplicate_reports' = duplicate_reports
                                 THEN "link_ignored" ELSE "link_insert", i)>>]
    /\ loc' = [loc EXCEPT ![p] = [NoLoc EXCEPT !.queue = MarkRecalcs(i, d)]]
    /\ pc' = [pc EXCEPT ![p] = "rc_select"]
    /\ result' = [result EXCEPT ![p] = "none"]
    /\ UNCHANGED <<issues, citizen_votes, priority_logs, now>>

\* ------------------------------------------------------------------------
\* POST /api/priority/calculate/<issue_id>: calculate_issue_priority,
\* Issue.update_priority_score
\* ------------------------------------------------------------------------
\* issue = Issue.get_by_id(issue_id); 404 when not found
CalcGet(p, i) ==
    /\ Begin(p, [NoReq EXCEPT !.name = "calculate_issue_priority",
                              !.issue_id = i])
    /\ hist' = [hist EXCEPT ![p] = <<Event("recompute", i)>>]
    /\ IF i \in DOMAIN issues
       THEN /\ loc' = [loc EXCEPT ![p] = [NoLoc EXCEPT !.issue = Some(issues[i])]]
            /\ pc' = [pc EXCEPT ![p] = "cp_calc"]
            /\ result' = [result EXCEPT ![p] = "none"]
       ELSE /\ Finish(p, "not_found")
            /\ loc' = [loc EXCEPT ![p] = NoLoc]
    /\ UNCHANGED <<store, now>>

\* priority_data = PriorityScoring.calculate_overall_priority_score(issue)
CalcCalc(p) ==
    /\ pc[p] = "cp_calc"
    /\ loc' = [loc EXCEPT ![p].priority_data =
                  Some(calculate_overall_priority_score(
                           IssueData(req[p].issue_id, loc[p].issue[1]),
                           issues, now))]
    /\ pc' = [pc EXCEPT ![p] = "up_find"]
    /\ UNCHANGED <<store, now, req, result, hist, opsStarted>>

\* current = db.issues.find_one({'_id': ...}, {priority_score, priority_level})
UpdateFind(p) ==
    /\ pc[p] = "up_find"
    /\ LET doc == issues[req[p].issue_id] IN
         loc' = [loc EXCEPT ![p].current =
                    Some([priority_score |-> doc.priority_score,
                          priority_level |-> doc.priority_level])]
    /\ pc' = [pc EXCEPT ![p] = "up_update"]
    /\ UNCHANGED <<store, now, req, result, hist, opsStarted>>

\* db.issues.update_one({'_id': ...}, {'$set': {...}})
UpdateSet(p) ==
    /\ pc[p] = "up_update"
    /\ issues' = SetPriority(issues, req[p].issue_id, loc[p].priority_data[1])
    /\ hist' = [hist EXCEPT ![p] = Append(@, Event("persist", req[p].issue_id))]
    /\ pc' = [pc EXCEPT ![p] = "up_log"]
    /\ UNCHANGED <<citizen_votes, duplicate_reports, priority_logs, now, req,
                   loc, result, opsStarted>>

\* the priority_logs document written by update_priority_score
LogEntry(issue_id, current, priority_data) ==
    [issue_id |-> issue_id,
     old_priority_score |-> current.priority_score,
     new_priority_score |-> priority_data.final_score,
     old_priority_level |-> current.priority_level,
     new_priority_level |-> priority_data.priority_level,
     trigger_reason |-> "automatic_recalculation"]

\* if current: db.priority_logs.insert_one({...}); return True
UpdateLog(p) ==
    /\ pc[p] = "up_log"
    /\ IF loc[p].current # None
       THEN /\ priority_logs' =
                  Append(priority_logs,
                         LogEntry(req[p].issue_id, loc[p].current[1],
                                  loc[p].priority_data[1]))
            /\ hist' = [hist EXCEPT ![p] =
                          Append(@, Event("log", Len(priority_logs) + 1))]
       ELSE UNCHANGED <<priority_logs, hist>>
    /\ Finish(p, "success")
    /\ UNCHANGED <<issues, citizen_votes, duplicate_reports, now, req, loc,
                   opsStarted>>

\* ------------------------------------------------------------------------
\* POST /api/priority/recalculate-all: Issue.recalculate_all_priorities
\* ------------------------------------------------------------------------
RECURSIVE Ascending(_)
Ascending(S) ==
    IF S = {} THEN <<>>
    ELSE LET m == CHOOSE x \in S : \A y \in S : x <= y
         IN  <<m>> \o Ascending(S \ {m})

\* list(db.issues.find({'status': {'$ne': 'resolved'}})): <<id, document>>
Unresolved(coll) ==
    LET ids == Ascending({i \in DOMAIN coll : coll[i].status # "resolved"})
    IN  [k \in 1..Len(ids) |-> <<ids[k], coll[ids[k]]>>]

\* `from priority_scoring import PriorityScoring` (first statement): the
\* module is app/services/priority_scoring.py and no entry point (run.py,
\* wsgi.py, tests/conftest.py) puts app/services on sys.path, so the import
\* raises ModuleNotFoundError unless the deployment adds that directory; the
\* route answers 500.
BatchImportError(p) ==
    /\ Begin(p, [NoReq EXCEPT !.name = "recalculate_all_priorities"])
    /\ Finish(p, "error")
    /\ loc' = [loc EXCEPT ![p] = NoLoc]
    /\ hist' = [hist EXCEPT ![p] = <<>>]
    /\ UNCHANGED <<store, now>>

\* with app/services on sys.path the import succeeds:
\* issues = list(db.issues.find({'status': {'$ne': 'resolved'}}))
BatchFind(p) ==
    /\ Begin(p, [NoReq EXCEPT !.name = "recalculate_all_priorities"])
    /\ loc' = [loc EXCEPT ![p] = [NoLoc EXCEPT !.todo = Unresolved(issues)]]
    /\ hist' = [hist EXCEPT ![p] =
                  [k \in 1..Len(Unresolved(issues)) |->
                      Event("selected", Unresolved(issues)[k][1])]]
    /\ IF Unresolved(issues) = <<>>
       THEN Finish(p, "success")
       ELSE /\ pc' = [pc EXCEPT ![p] = "batch_calc"]
            /\ result' = [result EXCEPT ![p] = "none"]
    /\ UNCHANGED <<store, now>>

\* issue_data = Issue._doc_to_dict(issue); priority_data = calculate_...
BatchCalc(p) ==
    /\ pc[p] = "batch_calc"
    /\ LET issue == Head(loc[p].todo) IN
         /\ loc' = [loc EXCEPT ![p].priority_data =
                       Some(calculate_overall_priority_score(
                                IssueData(issue[1], issue[2]), issues, now))]
         /\ hist' = [hist EXCEPT ![p] = Append(@, Event("recompute", issue[1]))]
    /\ pc' = [pc EXCEPT ![p] = "batch_update"]
    /\ UNCHANGED <<store, now, req, result, opsStarted>>

\* db.issues.update_one({'_id': issue['_id']}, {'$set': ...}); updated_count += 1
BatchUpdate(p) ==
    /\ pc[p] = "batch_update"
    /\ LET issue == Head(loc[p].todo) IN
         /\ issues' = SetPriority(issues, issue[1], loc[p].priority_data[1])
         /\ hist' = [hist EXCEPT ![p] = Append(@, Event("persist", issue[1]))]
    /\ loc' = [loc EXCEPT ![p].todo = Tail(@), ![p].priority_data = None,
                          ![p].updated_count = @ + 1]
    /\ IF Tail(loc[p].todo) = <<>>
       THEN Finish(p, "success")
       ELSE /\ pc' = [pc EXCEPT ![p] = "batch_calc"]
            /\ UNCHANGED result
    /\ UNCHANGED <<citizen_votes, duplicate_reports, priority_logs, now, req,
                   opsStarted>>

\* ------------------------------------------------------------------------
\* Issue.update_status (admin route): one update_one
\* ------------------------------------------------------------------------
Statuses == {"resolved"}

update_status(i, status) ==
    /\ issues[i].status # status
    /\ issues' = [issues EXCEPT ![i].status = status]
    /\ UNCHANGED <<citizen_votes, duplicate_reports, priority_logs, now,
                   pc, req, loc, result, hist, opsStarted>>

\* the requests of the priority routes
Requests ==
    \/ \E p \in Procs, i \in VotedIds, u \in Users, r \in Ratings :
          VoteReject(p, i, u, r)
          /\ EngineOnly
    \/ \E p \in Procs, i \in VotedIds, u \in Users, r \in Ratings :
          VoteSelect(p, i, u, r)
          /\ EngineOnly
    \/ \E p \in Procs : VoteWrite(p)
          /\ EngineOnly
    \/ \E p \in Procs, i \in RequestIds, d \in RequestIds, u \in Reporters :
          MarkReject(p, i, d, u)
          /\ EngineOnly
    \/ \E p \in Procs, i \in RequestIds, d \in RequestIds, u \in Reporters :
          MarkInsert(p, i, d, u)
          /\ EngineOnly
    \/ \E p \in Procs : RecalcSelect(p)
          /\ EngineOnly
    \/ \E p \in Procs : RecalcCalc(p)
          /\ EngineOnly
    \/ \E p \in Procs : RecalcUpdate(p)
          /\ EngineOnly
    \/ \E p \in Procs, i \in RequestIds : CalcGet(p, i)
          /\ EngineOnly
    \/ \E p \in Procs : CalcCalc(p)
          /\ EngineOnly
    \/ \E p \in Procs : UpdateFind(p)
          /\ EngineOnly
    \/ \E p \in Procs : UpdateSet(p)
          /\ EngineOnly
    \/ \E p \in Procs : UpdateLog(p)
          /\ EngineOnly
    \/ \E p \in Procs : BatchImportError(p)
          /\ EngineOnly
    \/ \E p \in Procs : BatchFind(p)
          /\ EngineOnly
    \/ \E p \in Procs : BatchCalc(p)
          /\ EngineOnly
    \/ \E p \in Procs : BatchUpdate(p)
          /\ EngineOnly

Next ==
    \/ Requests
    \/ \E i \in ResolvableIds, s \in Statuses :
          update_status(i, s)
          /\ EngineOnly

Spec == Init /\ [][Next]_vars

\* ------------------------------------------------------------------------
\* Store failures: a statement sent to the store raises.  FaultSpec runs the
\* requests of the priority routes against a store that may fail the
\* statements of a recompute and the append to priority_logs.
\* ------------------------------------------------------------------------
\* a handler that clears the stored breakdown when the recompute fails
AbortedRecompute_ClearsBreakdown(coll, id) ==
    IF id \in DOMAIN coll
    THEN [coll EXCEPT ![id].priority_breakdown = None]
    ELSE coll

\* the issues collection after a recompute of `id` that raised: neither the
\* except branches nor the finally branches send a statement to the store
AbortedRecompute(coll, id) == coll

\* a recompute whose exception reaches the calling operation, which then
\* takes its own except branch and returns False
RecalcSwallow_Propagates(p) ==
    /\ Finish(p, "failed")
    /\ loc' = loc

\* _recalculate_issue_priority: `except Exception as e: print(...)`, then
\* `finally: conn.close()`; the caller goes on after the call
RecalcSwallow(p) == NextRecalc(p)

\* the SELECT of the issue, a read of the scorer (the SELECT of
\* calculate_reports_count_score) or the UPDATE raises
RecalcError(p) ==
    /\ pc[p] \in {"rc_select", "rc_calc", "rc_update"}
    /\ LET id == Head(loc[p].queue) IN
         /\ hist' = [hist EXCEPT ![p] =
                       @ \o (IF pc[p] = "rc_select"
                             THEN <<Event("recompute", id)>> ELSE <<>>)
                         \o <<Event("recompute_failed", id)>>]
         /\ issues' = AbortedRecompute(issues, id)
    /\ RecalcSwallow(p)
    /\ UNCHANGED <<citizen_votes, duplicate_reports, priority_logs, now, req,
                   opsStarted>>

\* calculate_issue_priority: a read of the scorer raises; `except Exception`
\* of the route answers 500 before Issue.update_priority_score is called
CalcError(p) ==
    /\ pc[p] = "cp_calc"
    /\ hist' = [hist EXCEPT ![p] =
                  Append(@, Event("recompute_failed", req[p].issue_id))]
    /\ issues' = AbortedRecompute(issues, req[p].issue_id)
    /\ Finish(p, "error")
    /\ UNCHANGED <<citizen_votes, duplicate_reports, priority_logs, now, req,
                   loc, opsStarted>>

\* recalculate_all_priorities: a read of the scorer raises inside the loop;
\* the exception leaves the function and the route answers 500
BatchError(p) ==
    /\ pc[p] = "batch_calc"
    /\ LET id == Head(loc[p].todo)[1] IN
         /\ hist' = [hist EXCEPT ![p] =
                       @ \o <<Event("recompute", id),
                              Event("recompute_failed", id)>>]
         /\ issues' = AbortedRecompute(issues, id)
    /\ Finish(p, "error")
    /\ UNCHANGED <<citizen_votes, duplicate_reports, priority_logs, now, req,
                   loc, opsStarted>>

\* update_priority_score: db.priority_logs.insert_one raises after update_one
\* has succeeded; nothing catches it before `except Exception` of the route,
\* which answers 500
LogError(p) ==
    /\ pc[p] = "up_log"
    /\ loc[p].current # None
    /\ hist' = [hist EXCEPT ![p] =
                  Append(@, Event("log_failed", req[p].issue_id))]
    /\ Finish(p, "error")
    /\ UNCHANGED <<store, now, req, loc, opsStarted>>

FaultNext ==
    \/ Requests
    \/ \E p \in Procs : RecalcError(p) /\ EngineOnly
    \/ \E p \in Procs : CalcError(p) /\ EngineOnly
    \/ \E p \in Procs : BatchError(p) /\ EngineOnly
    \/ \E p \in Procs : LogError(p) /\ EngineOnly

FaultSpec == Init /\ [][FaultNext]_vars

\* ------------------------------------------------------------------------
\* ScoreSpec: the scorer applied to issues of many shapes.  The store starts
\* with issue 1 drawn from the profiles below and recomputes run through
\* POST /api/priority/calculate/<issue_id>; nothing else changes the store.
\* ------------------------------------------------------------------------
MaxNear == 11

Categories == {"road", "electricity", "dustbin", "sanitation"}
Texts == {{"blocked"}, {"minor"}, {"urgent", "dangerous", "leak", "traffic"}}
Addresses ==
    {{"main", "avenue"}, {"alley"}, {"highway", "hospital"},
     {"lane", "street"}, {"hospital"}, {"street", "hospital", "school"}}
\* as stored by Issue.create, and as ISO strings 200 days and 1 day old
CreatedAts ==
    {[kind |-> "datetime", day |-> 0], [kind |-> "iso", day |-> 0],
     [kind |-> "iso", day |-> 199]}
\* ai_severity_score: not analysed, or a value ImageAnalysis can return
AiScores == {None, Some(825)}
ScoredIds == {1, 2}

Profile(category, text, address, created_at, ai) ==
    [NewIssue(category, text, address, 0, created_at.day) EXCEPT
        !.created_at = created_at, !.ai_severity_score = ai]

\* an issue 899 micro-degrees (99.96 m) north of issue 1
NearIssue == NewIssue("water", {"leak"}, {"lane"}, 899, 150)
\* an issue 1798 micro-degrees (199.93 m) north of issue 1, and so 99.96 m
\* north of NearIssue
FarIssue == NewIssue("water", {"leak"}, {"lane"}, 1798, 150)

\* issue 1 and one neighbour 55.6 m away
ProfileInit ==
    \E c \in Categories, t \in Texts, a \in Addresses, d \in CreatedAts,
       ai \in AiScores :
        issues = <<Profile(c, t, a, d, ai),
                   NewIssue("water", {"leak", "minor"}, {"lane"}, 500, 150)>>

\* issue 1, then n unresolved issues within 100 m, one unresolved issue
\* farther away and one resolved issue within 100 m
CrowdInit ==
    \E n \in 0..MaxNear, t \in Texts :
        issues = [i \in 1..(n + 3) |->
                    IF i = 1
                    THEN Profile("electricity", t, {"highway", "hospital"},
                                 [kind |-> "iso", day |-> 0], None)
                    ELSE IF i <= n + 1 THEN NearIssue
                    ELSE IF i = n + 2 THEN FarIssue
                    ELSE [NearIssue EXCEPT !.status = "resolved"]]

\* created_at values the scorer cannot use: ISO strings of a day after `now`
\* and a string that is no ISO date
UnusableCreatedAts ==
    {[kind |-> "iso", day |-> 201], [kind |-> "iso", day |-> 565],
     [kind |-> "bad", day |-> 0]}

\* issue 1 with such a created_at, and one neighbour 55.6 m away
FallbackInit ==
    \E c \in Categories, d \in UnusableCreatedAts :
        issues = <<Profile(c, {"minor"}, {"alley"}, d, None),
                   NewIssue("water", {"leak", "minor"}, {"lane"}, 500, 150)>>

ScoreInit ==
    /\ ProfileInit \/ CrowdInit \/ FallbackInit
    /\ citizen_votes = <<>>
    /\ duplicate_reports = <<>>
    /\ priority_logs = <<>>
    /\ now = 200
    /\ pc = [p \in Procs |-> "idle"]
    /\ req = [p \in Procs |-> NoReq]
    /\ loc = [p \in Procs |-> NoLoc]
    /\ result = [p \in Procs |-> "none"]
    /\ hist = [p \in Procs |-> <<>>]
    /\ opsStarted = 0
    /\ user_upvotes = <<>>
    /\ LimiterIdle

ScoreNext ==
    \/ \E p \in Procs, i \in ScoredIds : CalcGet(p, i)
          /\ EngineOnly
    \/ \E p \in Procs : CalcCalc(p)
          /\ EngineOnly
    \/ \E p \in Procs : UpdateFind(p)
          /\ EngineOnly
    \/ \E p \in Procs : UpdateSet(p)
          /\ EngineOnly
    \/ \E p \in Procs : UpdateLog(p)
          /\ EngineOnly

ScoreSpec == ScoreInit /\ [][ScoreNext]_vars

\* ------------------------------------------------------------------------
\* RateLimiter (app/middleware/rate_limiter.py).  RateSpec runs is_allowed for
\* a route decorated with rate_limit(limit, window) while the clock advances;
\* the priority engine stands still.
\* ------------------------------------------------------------------------
MaxCalls == 3
Horizon == 10800

cleanup_interval == 300
\* timedelta(hours=2), in seconds
cutoff_age == 7200

Limits == {0, 1, 2}
Windows == {1800, 3600, 10800}
Advances == {1800, 3600}

RECURSIVE MinOf(_)
\* min(recent_requests)
MinOf(ts) ==
    IF Len(ts) = 1 THEN ts[1] ELSE Min(ts[1], MinOf(Tail(ts)))

\* the timestamps of a list that are later than `start`
Later(entries, start) == SelectSeq(entries, LAMBDA ts : ts > start)

\* _cleanup_old_entries: at most once per cleanup_interval, drop the records
\* that are not later than two hours before the current time
_cleanup_old_entries(reqs, last, t) ==
    IF t - last < cleanup_interval
    THEN [requests |-> reqs, last_cleanup |-> last]
    ELSE [requests |-> [k \in DOMAIN reqs |-> Later(reqs[k], t - cutoff_age)],
          last_cleanup |-> t]

\* is_allowed(ip_address, endpoint, limit, window)
is_allowed(ip_address, endpoint) ==
    LET key == <<ip_address, endpoint>>
        cleaned == _cleanup_old_entries(requests, last_cleanup, current_time)
        window_start == current_time - window
        recent_requests == Later(cleaned.requests[key], window_start)
        request_count == Len(recent_requests)
        oldest_request == IF recent_requests = <<>> THEN current_time
                          ELSE MinOf(recent_requests)
    IN  /\ Len(returned) < MaxCalls
        /\ last_cleanup' = cleaned.last_cleanup
        /\ IF request_count >= limit
           THEN /\ requests' = cleaned.requests
                /\ admitted' = admitted
                /\ returned' = Append(returned,
                       [key |-> key, time |-> current_time, is_allowed |-> FALSE,
                        remaining |-> 0,
                        reset_time |-> oldest_request + window])
           ELSE /\ requests' = [cleaned.requests EXCEPT
                                   ![key] = Append(@, current_time)]
                /\ admitted' = Append(admitted,
                                      [key |-> key, time |-> current_time])
                /\ returned' = Append(returned,
                       [key |-> key, time |-> current_time, is_allowed |-> TRUE,
                        remaining |-> limit - request_count - 1,
                        reset_time |-> current_time + window])
        /\ UNCHANGED <<current_time, limit, window, engineVars, user_upvotes>>

\* time passes between two requests
Advance(d) ==
    /\ current_time + d <= Horizon
    /\ current_time' = current_time + d
    /\ UNCHANGED <<requests, last_cleanup, limit, window, admitted, returned,
                   engineVars, user_upvotes>>

\* a fresh RateLimiter behind a route decorated with rate_limit(l, w)
RateInit ==
    /\ issues = <<>>
    /\ citizen_votes = <<>>
    /\ duplicate_reports = <<>>
    /\ priority_logs = <<>>
    /\ now = 200
    /\ pc = [p \in Procs |-> "idle"]
    /\ req = [p \in Procs |-> NoReq]
    /\ loc = [p \in Procs |-> NoLoc]
    /\ result = [p \in Procs |-> "none"]
    /\ hist = [p \in Procs |-> <<>>]
    /\ opsStarted = 0
    /\ user_upvotes = <<>>
    /\ requests = [k \in Keys |-> <<>>]
    /\ last_cleanup = 0
    /\ current_time = 0
    /\ limit \in Limits
    /\ window \in Windows
    /\ admitted = <<>>
    /\ returned = <<>>

RateNext ==
    \/ \E ip \in Clients, e \in Endpoints : is_allowed(ip, e)
    \/ \E d \in Advances : Advance(d)

RateSpec == RateInit /\ [][RateNext]_vars

\* ------------------------------------------------------------------------
\* POST /upvote/<issue_id>: Issue.upvote(issue_id, user_id).  UpvoteSpec runs
\* upvote requests only.
\* ------------------------------------------------------------------------
UpvotedIds == RequestIds

\* existing = db.user_upvotes.find_one({'user_id': ..., 'issue_id': ...})
FindUpvote(rows, issue_id, user_id) ==
    LET hits == {k \in 1..Len(rows) :
                    rows[k].issue_id = issue_id /\ rows[k].user_id = user_id}
    IN  IF hits = {} THEN None
        ELSE Some(CHOOSE k \in hits : \A h \in hits : k <= h)

\* the unique index on (user_id, issue_id) created by init_db
user_upvotes_unique(rows, row) ==
    \A k \in 1..Len(rows) :
        ~ /\ rows[k].user_id = row.user_id
          /\ rows[k].issue_id = row.issue_id

\* find_one; `if existing: return {'error': ..., 'already_upvoted': True}`
UpvoteFind(p, i, u) ==
    /\ Begin(p, [NoReq EXCEPT !.name = "upvote", !.issue_id = i, !.user_id = u])
    /\ LET existing == FindUpvote(user_upvotes, i, u) IN
         /\ loc' = [loc EXCEPT ![p] = [NoLoc EXCEPT !.existing = existing]]
         /\ IF existing # None
            THEN Finish(p, "already_upvoted")
            ELSE /\ pc' = [pc EXCEPT ![p] = "uv_insert"]
                 /\ result' = [result EXCEPT ![p] = "none"]
    /\ hist' = [hist EXCEPT ![p] = <<>>]
    /\ UNCHANGED <<store, now, user_upvotes, limiterVars>>

\* db.user_upvotes.insert_one({...}); the unique index makes the insert of a
\* second record of the pair raise DuplicateKeyError, which nothing catches
UpvoteInsert(p) ==
    /\ pc[p] = "uv_insert"
    /\ LET row == [user_id |-> req[p].user_id, issue_id |-> req[p].issue_id] IN
         IF user_upvotes_unique(user_upvotes, row)
         THEN /\ user_upvotes' = Append(user_upvotes, row)
              /\ hist' = [hist EXCEPT ![p] =
                            Append(@, Event("upvote_insert", req[p].issue_id))]
              /\ pc' = [pc EXCEPT ![p] = "uv_inc"]
              /\ UNCHANGED result
         ELSE /\ Finish(p, "error")
              /\ UNCHANGED <<user_upvotes, hist>>
    /\ UNCHANGED <<store, now, req, loc, opsStarted, limiterVars>>

\* result = db.issues.find_one_and_update({'_id': ...}, {'$inc': {'upvotes': 1}});
\* return {'upvotes': result['upvotes'], 'success': True}.  For an id without a
\* record the result is None and result['upvotes'] raises.
UpvoteInc(p) ==
    /\ pc[p] = "uv_inc"
    /\ LET id == req[p].issue_id IN
         IF id \in DOMAIN issues
         THEN /\ issues' = [issues EXCEPT ![id].upvotes = @ + 1]
              /\ hist' = [hist EXCEPT ![p] = Append(@, Event("upvote_inc", id))]
              /\ Finish(p, "success")
         ELSE /\ Finish(p, "error")
              /\ UNCHANGED <<issues, hist>>
    /\ UNCHANGED <<citizen_votes, duplicate_reports, priority_logs, now, req,
                   loc, opsStarted, user_upvotes, limiterVars>>

UpvoteNext ==
    \/ \E p \in Procs, i \in UpvotedIds, u \in Users : UpvoteFind(p, i, u)
    \/ \E p \in Procs : UpvoteInsert(p)
    \/ \E p \in Procs : UpvoteInc(p)

UpvoteSpec == Init /\ [][UpvoteNext]_vars

\* ------------------------------------------------------------------------
\* Properties
\* ------------------------------------------------------------------------
Done(p) == pc[p] = "done"

\* the step in which worker p takes a request
Takes(p) == opsStarted' = opsStarted + 1 /\ Free(p) /\ \A q \in Procs : q < p => ~Free(q)

\* ids of the recomputes a handler has started, in order
RECURSIVE RecomputeIds(_)
RecomputeIds(h) ==
    IF h = <<>> THEN <<>>
    ELSE IF Head(h).ev = "recompute" THEN <<Head(h).id>> \o RecomputeIds(Tail(h))
    ELSE RecomputeIds(Tail(h))

CountEvents(h, ev) == Cardinality({k \in 1..Len(h) : h[k].ev = ev})

VoteRows(rows, i, u) ==
    {k \in 1..Len(rows) : rows[k].issue_id = i /\ rows[k].user_id = u
                          /\ rows[k].vote_type = "severity"}

LinkRows(rows, i, d) ==
    {k \in 1..Len(rows) : rows[k].issue_id = i /\ rows[k].duplicate_issue_id = d}

\* get_severity_votes(issue_id): the ratings stored for the issue
RECURSIVE RatingsFor(_, _)
RatingsFor(rows, i) ==
    IF rows = <<>> THEN <<>>
    ELSE IF Head(rows).issue_id = i /\ Head(rows).vote_type = "severity"
         THEN <<Head(rows).rating>> \o RatingsFor(Tail(rows), i)
         ELSE RatingsFor(Tail(rows), i)

\* the breakdown of an issue computed from the store as it is now, its
\* stored votes included
ExpectedPriority(i) ==
    calculate_overall_priority_score(
        [IssueData(i, issues[i]) EXCEPT
            !.citizen_severity_votes = RatingsFor(citizen_votes, i)],
        issues, now)

\* C1 state part: at most one severity vote per (issue_id, user_id)
VotesUnique ==
    \A i \in RequestIds, u \in Users :
        Cardinality(VoteRows(citizen_votes, i, u)) <= 1

\* C1 step part: a step never adds a row for a key that has one, and a
\* submission that found the user's vote replaces its rating in place
VoteReplaced ==
    /\ \A i \in RequestIds, u \in Users :
          VoteRows(citizen_votes, i, u) # {} =>
              VoteRows(citizen_votes', i, u) = VoteRows(citizen_votes, i, u)
    /\ \A p \in Procs :
          (pc[p] = "vote_write" /\ pc'[p] # "vote_write"
              /\ loc[p].existing # None) =>
            /\ Len(citizen_votes') = Len(citizen_votes)
            /\ citizen_votes'[loc[p].existing[1]].rating = req[p].rating
            /\ pc'[p] = "rc_select"

C2_NoLostUpdate ==
    (\A p \in Procs : Free(p)) =>
        \A p \in Procs :
            (Done(p) /\ result[p] = "success"
                /\ req[p].name \in {"vote_severity", "mark_duplicate"}) =>
              \A k \in 1..Len(hist[p]) :
                  hist[p][k].ev = "persist" =>
                    LET i == hist[p][k].id IN
                      /\ issues[i].priority_breakdown =
                             Some(ExpectedPriority(i))
                      /\ issues[i].priority_score =
                             ExpectedPriority(i).final_score
                      /\ issues[i].priority_level =
                             ExpectedPriority(i).priority_level

\* C3 step: a request whose rating is outside [1,10] ends at once as
\* rejected, having touched nothing in the store
InvalidVoteRejected ==
    \A p \in Procs :
        (Takes(p) /\ req'[p].name = "vote_severity"
            /\ ~(1 <= req'[p].rating /\ req'[p].rating <= 10)) =>
          /\ pc'[p] = "done"
          /\ result'[p] = "rejected"
          /\ hist'[p] = <<>>
          /\ UNCHANGED store

\* C3: submit_severity_vote with a rating outside [1,10] is rejected before
\* any write: no vote row is inserted or updated, no recompute runs and the
\* priority fields are unchanged.
C3_InvalidRatingRejected == [][InvalidVoteRejected]_vars

\* C3 witness: a vote with rating 11 has been rejected
C3_Witness ==
    \E p \in Procs :
        /\ Done(p) /\ req[p].name = "vote_severity" /\ req[p].rating > 10
        /\ result[p] = "rejected" /\ hist[p] = <<>>

\* C4 step: a duplicate mark of an issue with itself ends at once as
\* rejected, having touched nothing in the store
SelfMarkRejected ==
    \A p \in Procs :
        (Takes(p) /\ req'[p].name = "mark_duplicate"
            /\ req'[p].issue_id = req'[p].duplicate_issue_id) =>
          /\ pc'[p] = "done"
          /\ result'[p] = "rejected"
          /\ hist'[p] = <<>>
          /\ UNCHANGED store

\* C4: mark_duplicate with issue_id = dup_id is rejected with a validation
\* error and writes nothing: no link row, no priority update, no log entry.
C4_SelfDuplicateRejected == [][SelfMarkRejected]_vars

\* C4 witness: a self-referential duplicate mark has been rejected
C4_Witness ==
    \E p \in Procs :
        /\ Done(p) /\ req[p].name = "mark_duplicate"
        /\ req[p].issue_id = req[p].duplicate_issue_id
        /\ result[p] = "rejected"
        /\ duplicate_reports = <<>>

\* C5 state part: at most one link per ordered pair
LinksUnique ==
    \A i \in RequestIds, d \in RequestIds :
        Cardinality(LinkRows(duplicate_reports, i, d)) <= 1

\* C5 step part: a mark of a pair that is already linked leaves the links as
\* they are
RepeatedMarkNoOp ==
    \A p \in Procs :
        (Takes(p) /\ req'[p].name = "mark_duplicate"
            /\ LinkRows(duplicate_reports, req'[p].issue_id,
                        req'[p].duplicate_issue_id) # {}) =>
          UNCHANGED duplicate_reports

\* C5: mark_duplicate is idempotent on the link set: at most one link per
\* ordered pair, and a repeated call leaves the links unchanged.
C5_DuplicateLinkIdempotent == [](LinksUnique) /\ [][RepeatedMarkNoOp]_vars

\* C5 witness: the same pair has been marked twice and one link is stored
C5_Witness ==
    \E p \in Procs :
        /\ Done(p) /\ req[p].name = "mark_duplicate" /\ result[p] = "success"
        /\ hist[p][1].ev = "link_ignored"
        /\ Len(duplicate_reports) = 1

\* C6: every successful mark_duplicate has, after its link write, started a
\* recompute of issue_id and then of dup_id, also when the link existed.
C6_MarkRecomputesBoth ==
    \A p \in Procs :
        (Done(p) /\ req[p].name = "mark_duplicate" /\ result[p] = "success") =>
          /\ hist[p] # <<>>
          /\ hist[p][1].ev \in {"link_insert", "link_ignored"}
          /\ RecomputeIds(hist[p]) =
                 <<req[p].issue_id, req[p].duplicate_issue_id>>

\* C6 witness: a successful mark of an already linked pair of known issues
\* has recomputed and persisted both
C6_Witness ==
    \E p \in Procs :
        /\ Done(p) /\ req[p].name = "mark_duplicate" /\ result[p] = "success"
        /\ hist[p][1].ev = "link_ignored"
        /\ CountEvents(hist[p], "persist") = 2

\* C7: every accepted submit_severity_vote has started exactly one recompute,
\* of the voted issue, after its vote write; for a first vote and an update.
C7_VoteRecomputesOnce ==
    \A p \in Procs :
        (Done(p) /\ req[p].name = "vote_severity" /\ result[p] = "success") =>
          /\ hist[p] # <<>>
          /\ hist[p][1].ev \in {"vote_insert", "vote_update"}
          /\ RecomputeIds(hist[p]) = <<req[p].issue_id>>

\* C7 witness: an accepted vote that updated an existing one has finished
\* with its recompute persisted
C7_Witness ==
    \E p \in Procs :
        /\ Done(p) /\ req[p].name = "vote_severity" /\ result[p] = "success"
        /\ hist[p][1].ev = "vote_update"
        /\ CountEvents(hist[p], "persist") = 1

\* C8: after a successful submit_severity_vote, with no other request in
\* flight, the severity factor of the persisted breakdown is the one computed
\* from the votes stored for the issue (0.7 x current + 0.3 x mean).
C8_SeverityUsesStoredVotes ==
    \A p \in Procs :
        (Done(p) /\ req[p].name = "vote_severity" /\ result[p] = "success"
            /\ req[p].issue_id \in DOMAIN issues
            /\ \A q \in Procs : Free(q)) =>
          LET i == req[p].issue_id IN
            /\ issues[i].priority_breakdown # None
            /\ issues[i].priority_breakdown[1].factor_scores.severity =
                   calculate_severity_score(
                       [IssueData(i, issues[i]) EXCEPT
                           !.citizen_severity_votes =
                               RatingsFor(citizen_votes, i)])

\* the trigger_reason the audit log is to carry for a handler
ReasonOf(name) ==
    CASE name = "vote_severity"              -> "severity_vote"
      [] name = "mark_duplicate"             -> "duplicate_mark"
      [] name = "recalculate_all_priorities" -> "batch_recalculation"
      [] OTHER                               -> "automatic_recalculation"

\* C9: every recompute that persisted a priority, whatever its trigger, has
\* appended exactly one log entry, for the issue it recomputed.
C9_EveryRecomputeLogged ==
    \A p \in Procs :
        Done(p) =>
          /\ CountEvents(hist[p], "log") = CountEvents(hist[p], "persist")
          /\ \A k \in 1..Len(hist[p]) :
                hist[p][k].ev = "persist" =>
                  /\ k < Len(hist[p])
                  /\ hist[p][k + 1].ev = "log"
                  /\ priority_logs[hist[p][k + 1].id].issue_id = hist[p][k].id

\* C10: the log entry of each recompute carries the trigger_reason of the
\* event that caused it (severity_vote, duplicate_mark, batch_recalculation,
\* automatic_recalculation otherwise).
C10_TriggerReasonNamesEvent ==
    \A p \in Procs :
        Done(p) =>
          \A k \in 1..Len(hist[p]) :
              hist[p][k].ev = "persist" =>
                \E j \in 1..Len(hist[p]) :
                    /\ hist[p][j].ev = "log"
                    /\ priority_logs[hist[p][j].id].issue_id = hist[p][k].id
                    /\ priority_logs[hist[p][j].id].trigger_reason =
                           ReasonOf(req[p].name)

\* the rows an accepted vote or duplicate mark wrote are in the store
WrittenRowStored(p) ==
    IF req[p].name = "vote_severity"
    THEN VoteRows(citizen_votes, req[p].issue_id, req[p].user_id) # {}
    ELSE LinkRows(duplicate_reports, req[p].issue_id,
                  req[p].duplicate_issue_id) # {}

\* C11 state part: a vote or duplicate mark whose write succeeded and whose
\* recompute failed has returned success, and its row is in the store
WriteSurvivesRecomputeFailure ==
    \A p \in Procs :
        (Done(p) /\ req[p].name \in {"vote_severity", "mark_duplicate"}
            /\ hist[p] # <<>>
            /\ hist[p][1].ev \in {"vote_insert", "vote_update",
                                  "link_insert", "link_ignored"}
            /\ CountEvents(hist[p], "recompute_failed") > 0) =>
          /\ result[p] = "success"
          /\ WrittenRowStored(p)

\* the step in which a recompute of worker p fails
RecomputeFails(p) ==
    /\ Len(hist'[p]) > Len(hist[p])
    /\ hist'[p][Len(hist'[p])].ev = "recompute_failed"

\* C11 step part: the failing recompute removes no vote and no link and
\* leaves every issue with the priority it had
NoRollback ==
    \A p \in Procs :
        (RecomputeFails(p)
            /\ req[p].name \in {"vote_severity", "mark_duplicate"}) =>
          UNCHANGED <<issues, citizen_votes, duplicate_reports>>

\* C11: when the vote or link write succeeds and the recompute after it
\* fails, submit_severity_vote / mark_duplicate still report success, the
\* written vote or link stays in the store, and the issue keeps its previous
\* priority.
C11_RecomputeFailureKeepsWrite ==
    [](WriteSurvivesRecomputeFailure) /\ [][NoRollback]_vars

\* C11 witness: a first vote on issue 1 was stored, its recompute failed, the
\* vote reported success and issue 1 still has the priority of Issue.create
C11_Witness ==
    \E p \in Procs :
        /\ Done(p) /\ req[p].name = "vote_severity" /\ result[p] = "success"
        /\ Len(hist[p]) = 3
        /\ hist[p][1].ev = "vote_insert"
        /\ hist[p][3].ev = "recompute_failed"
        /\ WrittenRowStored(p)
        /\ req[p].issue_id \in DOMAIN issues
        /\ issues[req[p].issue_id].priority_breakdown = None
        /\ issues[req[p].issue_id].priority_score = 500

\* C12 state part: a failed recompute has persisted nothing: the event before
\* its failure is its start, never a persist
FailureBeforePersist ==
    \A p \in Procs :
        \A k \in 1..Len(hist[p]) :
            hist[p][k].ev = "recompute_failed" =>
              /\ k > 1
              /\ hist[p][k - 1] = Event("recompute", hist[p][k].id)

\* C12 step part: the step in which a recompute fails leaves the priority
\* fields of every issue, and the log, as they were
AbortLeavesPriority ==
    \A p \in Procs :
        RecomputeFails(p) =>
          /\ \A i \in DOMAIN issues :
                /\ issues'[i].priority_score = issues[i].priority_score
                /\ issues'[i].priority_level = issues[i].priority_level
                /\ issues'[i].priority_breakdown = issues[i].priority_breakdown
          /\ UNCHANGED priority_logs

\* C12: a store read failure during scoring aborts the recompute before
\* anything is persisted: priority_score, priority_level and
\* priority_breakdown of the issue are left unchanged.
C12_ScoringFailurePersistsNothing ==
    [](FailureBeforePersist) /\ [][AbortLeavesPriority]_vars

\* C12 witness: a manual recompute of an issue that already has a stored
\* breakdown failed in the scorer and was answered with an error; the stored
\* breakdown is the earlier one
C12_Witness ==
    \E p \in Procs :
        /\ Done(p) /\ req[p].name = "calculate_issue_priority"
        /\ result[p] = "error"
        /\ hist[p] = <<Event("recompute", req[p].issue_id),
                       Event("recompute_failed", req[p].issue_id)>>
        /\ issues[req[p].issue_id].priority_breakdown # None
        /\ issues[req[p].issue_id].priority_score =
               issues[req[p].issue_id].priority_breakdown[1].final_score
        /\ Len(priority_logs) = 1

\* C13: when the priority write succeeded and the append of its log entry
\* fails, the new score, level and breakdown remain persisted and the
\* recompute is not reported as failed to the caller.
C13_LogFailureNotReported ==
    \A p \in Procs :
        (Done(p) /\ CountEvents(hist[p], "log_failed") > 0) =>
          /\ issues[req[p].issue_id].priority_breakdown # None
          /\ result[p] = "success"

\* ids of the events `ev` of a handler, in order
RECURSIVE EventIds(_, _)
EventIds(h, ev) ==
    IF h = <<>> THEN <<>>
    ELSE IF Head(h).ev = ev THEN <<Head(h).id>> \o EventIds(Tail(h), ev)
    ELSE EventIds(Tail(h), ev)

\* C14: recalculate_all recomputes and persists the priority of every issue
\* whose status is not resolved, persists nothing for the issues its query
\* left out as resolved, and returns the number of issues it updated.  (A
\* status only ever changes to resolved here, so an issue that is unresolved
\* at the end was unresolved when the query ran.)
C14_BatchRecomputesUnresolved ==
    \A p \in Procs :
        (Done(p) /\ req[p].name = "recalculate_all_priorities") =>
          /\ result[p] = "success"
          /\ EventIds(hist[p], "persist") = EventIds(hist[p], "selected")
          /\ \A i \in DOMAIN issues :
                issues[i].status # "resolved" =>
                    \E k \in 1..Len(hist[p]) : hist[p][k] = Event("persist", i)
          /\ loc[p].updated_count = Len(EventIds(hist[p], "selected"))

\* the batch that got past its import has done what C14 says
C14_HoldsOnceImported ==
    \A p \in Procs :
        (Done(p) /\ req[p].name = "recalculate_all_priorities"
            /\ result[p] = "success") =>
          /\ EventIds(hist[p], "persist") = EventIds(hist[p], "selected")
          /\ \A i \in DOMAIN issues :
                issues[i].status # "resolved" =>
                    \E k \in 1..Len(hist[p]) : hist[p][k] = Event("persist", i)
          /\ loc[p].updated_count = Len(EventIds(hist[p], "selected"))

\* every breakdown there is: computed by a handler, or stored on an issue
Breakdowns ==
    {loc[p].priority_data[1] : p \in {q \in Procs : loc[q].priority_data # None}}
    \cup {issues[i].priority_breakdown[1] :
              i \in {j \in DOMAIN issues : issues[j].priority_breakdown # None}}

\* the level the fixed thresholds assign to a score (in hundredths)
LevelOf(score) ==
    IF score >= 800 THEN "critical"
    ELSE IF score >= 650 THEN "high"
    ELSE IF score >= 450 THEN "medium"
    ELSE IF score >= 250 THEN "low"
    ELSE "very_low"

\* C15: in every breakdown, priority_level is the level the fixed thresholds
\* (>= 8.0 critical, >= 6.5 high, >= 4.5 medium, >= 2.5 low, else very_low)
\* assign to the reported final_score.
C15_LevelMatchesFinalScore ==
    \A b \in Breakdowns : b.priority_level = LevelOf(b.final_score)

\* factor scores at the ends and in the middle of [1,10]
FactorGrid == {100, 550, 1000}

InRange(score) == 100 <= score /\ score <= 1000

\* C16 first part: for factor scores in [1,10] the weighted sum is in [1,10]
WeightedSumInRange ==
    \A s \in FactorGrid, l \in FactorGrid, r \in FactorGrid,
       a \in FactorGrid, f \in FactorGrid :
        /\ 100 * 100 <= weighted_final_score(s, l, r, a, f)
        /\ weighted_final_score(s, l, r, a, f) <= 1000 * 100

\* C16: for factor scores in [1,10] the final_score computed as severity x
\* 0.35 + location x 0.25 + reports x 0.15 + age x 0.15 + safety x 0.10 lies
\* in [1,10]; the factor scores of every breakdown are in [1,10], and so is
\* every final_score and every persisted priority_score.
C16_FinalScoreInRange ==
    /\ WeightedSumInRange
    /\ \A b \in Breakdowns :
          /\ InRange(b.factor_scores.severity)
          /\ InRange(b.factor_scores.location)
          /\ InRange(b.factor_scores.reports_count)
          /\ InRange(b.factor_scores.age)
          /\ InRange(b.factor_scores.safety_impact)
          /\ InRange(b.final_score)
    /\ \A i \in DOMAIN issues : InRange(issues[i].priority_score)

\* C16 witness: a recompute has persisted the top of the range, 10.0, from
\* five factor scores of 10.0
C16_Witness ==
    \E i \in DOMAIN issues :
        /\ issues[i].priority_breakdown # None
        /\ issues[i].priority_score = 1000
        /\ LET f == issues[i].priority_breakdown[1].factor_scores IN
             /\ f.severity = 1000 /\ f.location = 1000
             /\ f.reports_count = 1000 /\ f.age = 1000
             /\ f.safety_impact = 1000

\* the weight map of the specification, in hundredths
FixedWeights ==
    [severity |-> 35, location |-> 25, reports_count |-> 15,
     age |-> 15, safety_impact |-> 10]

\* C17: the aggregator's weights are severity 0.35, location 0.25,
\* reports_count 0.15, age 0.15, safety_impact 0.10, they sum to exactly 1.0,
\* and every breakdown, whichever operation produced it, carries this map.
C17_WeightsFixed ==
    /\ WEIGHTS = FixedWeights
    /\ WEIGHTS.severity + WEIGHTS.location + WEIGHTS.reports_count
          + WEIGHTS.age + WEIGHTS.safety_impact = 100
    /\ \A b \in Breakdowns : b.weights = FixedWeights

\* C17 witness: breakdowns persisted by two different operations, a vote's
\* recompute and the batch job, are in the store
C17_Witness ==
    \E p \in Procs, q \in Procs :
        /\ Done(p) /\ req[p].name = "vote_severity"
        /\ CountEvents(hist[p], "persist") = 1
        /\ Done(q) /\ req[q].name = "recalculate_all_priorities"
        /\ CountEvents(hist[q], "persist") = 2
        /\ \A i \in DOMAIN issues : issues[i].priority_breakdown # None

\* the age buckets: <= 1 day 2.0, <= 7 days 3.0, <= 30 days 5.0,
\* <= 90 days 7.0, <= 180 days 8.5, older 10.0
AgeBucket(age_days) ==
    IF age_days <= 1 THEN 200
    ELSE IF age_days <= 7 THEN 300
    ELSE IF age_days <= 30 THEN 500
    ELSE IF age_days <= 90 THEN 700
    ELSE IF age_days <= 180 THEN 850
    ELSE 1000

\* for a created_at given as an ISO string the age score follows the buckets
\* and never decreases with the age
AgeBucketsForIsoStrings ==
    \A a \in 0..now :
        LET score(d) == calculate_age_score([kind |-> "iso", day |-> now - d], now)
        IN  /\ score(a) = AgeBucket(a)
            /\ a > 0 => score(a - 1) <= score(a)

\* C18: the age score follows the buckets of the issue's age in days, so it
\* is non-decreasing in the age; an issue stored in the issue store gets the
\* bucket of its age when it is recomputed (10.0 when created 200 days ago).
C18_AgeScoreFollowsAge ==
    /\ AgeBucketsForIsoStrings
    /\ \A i \in DOMAIN issues :
          issues[i].priority_breakdown # None =>
              issues[i].priority_breakdown[1].factor_scores.age =
                  AgeBucket(now - issues[i].created_at.day)

\* the buckets of the duplicate count: 0 -> 1.0, 1-2 -> 3.0, 3-5 -> 6.0,
\* 6-10 -> 8.0, more than 10 -> 10.0
ReportsBucket(count) ==
    IF count = 0 THEN 100
    ELSE IF count <= 2 THEN 300
    ELSE IF count <= 5 THEN 600
    ELSE IF count <= 10 THEN 800
    ELSE 1000

\* the candidates of the query for issue i (the other issues that are not
\* resolved) that lie within 100 m of it
NearCandidates(i) ==
    {j \in DOMAIN issues :
        /\ j # i
        /\ issues[j].status # "resolved"
        /\ calculate_distance(issues[i].latitude, issues[j].latitude)
              <= 100 * 1000}

\* C19: the reports_count score follows the buckets 0 -> 1.0, 1-2 -> 3.0,
\* 3-5 -> 6.0, 6-10 -> 8.0, more than 10 -> 10.0 of duplicate_count, so it
\* never decreases with it, and duplicate_count is the number of candidates
\* within 100 m.  (No status or position changes under ScoreSpec.)
C19_ReportsScoreFollowsCount ==
    /\ \A i \in DOMAIN issues :
          issues[i].priority_breakdown # None =>
            LET b == issues[i].priority_breakdown[1] IN
              /\ b.duplicate_count = Cardinality(NearCandidates(i))
              /\ b.factor_scores.reports_count = ReportsBucket(b.duplicate_count)
    /\ \A b1 \in Breakdowns, b2 \in Breakdowns :
          b1.duplicate_count <= b2.duplicate_count =>
              b1.factor_scores.reports_count <= b2.factor_scores.reports_count

\* C19 witness: scenario C, issue 1 with four other unresolved issues within
\* 100 m (and one farther away, one resolved) got score 6.0 and count 4, and
\* a neighbour with another count has been scored as well
C19_Witness ==
    /\ Len(issues) = 7
    /\ issues[1].priority_breakdown # None
    /\ issues[1].priority_breakdown[1].duplicate_count = 4
    /\ issues[1].priority_breakdown[1].factor_scores.reports_count = 600
    /\ issues[2].priority_breakdown # None
    /\ issues[2].priority_breakdown[1].duplicate_count # 4

\* C20 state part: with the issues' own data, the other issues and `now`
\* unchanged (all that changes under ScoreSpec are the priority fields and
\* the log), every breakdown computed for an issue is identical to every
\* other one computed for it and to the one stored on it
SameBreakdownAgain ==
    \A p \in Procs :
        loc[p].priority_data # None =>
          /\ \A q \in Procs :
                (loc[q].priority_data # None
                    /\ req[q].issue_id = req[p].issue_id) =>
                  loc[q].priority_data = loc[p].priority_data
          /\ issues[req[p].issue_id].priority_breakdown # None =>
                issues[req[p].issue_id].priority_breakdown = loc[p].priority_data

\* C20 step part: the step that computes a breakdown writes nothing
ScoringWritesNothing ==
    \A p \in Procs :
        (pc[p] = "cp_calc" /\ pc'[p] # "cp_calc") => UNCHANGED store

SameCategoryNear(i) ==
    {j \in NearCandidates(i) : issues[j].category = issues[i].category}

\* C21: the duplicates counted for an issue are exactly the other issues of
\* the same category, with a status other than resolved, within 100 m
C21_DuplicatesShareCategory ==
    \A i \in DOMAIN issues :
        issues[i].priority_breakdown # None =>
            issues[i].priority_breakdown[1].duplicate_count
                = Cardinality(SameCategoryNear(i))

\* the category table as documented: sanitation 4.0, 5.0 for anything else
DocumentedSeverityBase(category) ==
    CASE category = "electricity" -> 900
      [] category = "water"       -> 800
      [] category = "road"        -> 700
      [] category = "transport"   -> 600
      [] category = "sanitation"  -> 400
      [] OTHER                    -> 500

\* base + 2.0 per high, 0.5 per medium, -1.0 per low keyword found, clamped
DocumentedSeverity(category, text) ==
    Clamp(DocumentedSeverityBase(category)
          + 200 * CountFound(high_severity_keywords, text)
          + 50 * CountFound(medium_severity_keywords, text)
          - 100 * CountFound(low_severity_keywords, text))

\* votes and AI scores in [1,10] blended into a severity score
VoteLists == {<<>>, <<1>>, <<10>>, <<1, 10>>, <<10, 10, 9>>}
BlendedSeverityInRange ==
    \A c \in Categories, t \in Texts, v \in VoteLists,
       ai \in {None, Some(100), Some(825), Some(1000)} :
        InRange(calculate_severity_score(
            [category |-> c, text |-> t, ai_severity_score |-> ai,
             citizen_severity_votes |-> v]))

\* C22: with no votes and no AI score the severity score is
\* clamp(base(category) + 2.0 x high + 0.5 x medium - 1.0 x low, 1, 10) with
\* base electricity 9.0, water 8.0, road 7.0, transport 6.0, sanitation 4.0
\* and 5.0 otherwise; blended with votes and an AI score it stays in [1,10]
C22_SeverityFormula ==
    /\ \A i \in DOMAIN issues :
          (issues[i].priority_breakdown # None
              /\ issues[i].ai_severity_score = None) =>
            issues[i].priority_breakdown[1].factor_scores.severity
                = DocumentedSeverity(issues[i].category, issues[i].text)
    /\ BlendedSeverityInRange

\* the impact table as documented: sanitation 1.0, 2.0 for anything else
DocumentedImpact(category) ==
    CASE category = "electricity" -> 400
      [] category = "water"       -> 350
      [] category = "road"        -> 300
      [] category = "transport"   -> 300
      [] category = "sanitation"  -> 100
      [] OTHER                    -> 200

\* C23: the safety-impact score is clamp(impact(category) + 1.5 x safety
\* keywords found + 1.0 x economic keywords found, 1, 10); with no keyword
\* found it is the category's table value
C23_SafetyImpactFormula ==
    \A i \in DOMAIN issues :
        issues[i].priority_breakdown # None =>
            issues[i].priority_breakdown[1].factor_scores.safety_impact
                = Clamp(DocumentedImpact(issues[i].category)
                        + 150 * CountFound(high_impact_keywords, issues[i].text)
                        + 100 * CountFound(economic_keywords, issues[i].text))

\* the road-type groups in the order they are tried, with their scores
RoadTypeGroups ==
    << [keywords |-> {"highway", "expressway", "freeway"}, score |-> 1000],
       [keywords |-> {"main", "avenue", "boulevard"}, score |-> 800],
       [keywords |-> {"street", "road", "drive"}, score |-> 600],
       [keywords |-> {"lane", "circle", "court"}, score |-> 400],
       [keywords |-> {"private", "alley"}, score |-> 200] >>

\* the score of the first group one of whose keywords occurs, else 5.0
RoadTypeBase(address) ==
    LET hits == {g \in DOMAIN RoadTypeGroups :
                    \E k \in RoadTypeGroups[g].keywords : Found(k, address)}
    IN  IF hits = {} THEN 500
        ELSE RoadTypeGroups[CHOOSE g \in hits : \A h \in hits : g <= h].score

\* the facility kinds with the address keywords that stand for them
FacilityKeywords ==
    << [bonus |-> 300, keywords |-> {"hospital", "medical", "clinic"}],
       [bonus |-> 250, keywords |-> {"school", "college", "university", "education"}],
       [bonus |-> 300, keywords |-> {"police", "fire station", "emergency"}],
       [bonus |-> 200, keywords |-> {"bus stop", "metro", "station", "transport"}],
       [bonus |-> 150, keywords |-> {"mall", "market", "shopping", "commercial"}],
       [bonus |-> 180, keywords |-> {"government", "municipal", "office", "admin"}] >>

RECURSIVE MatchedBonus(_, _)
\* the sum of the bonuses of the first n facility kinds matched by the address
MatchedBonus(address, n) ==
    IF n = 0 THEN 0
    ELSE MatchedBonus(address, n - 1)
         + (IF \E k \in FacilityKeywords[n].keywords : Found(k, address)
            THEN FacilityKeywords[n].bonus ELSE 0)

\* C24: the location score is min(10, base + bonus) with the base of the first
\* matching road-type group (else 5) and the matched facility bonuses capped
\* at 3.0; without a facility keyword it is exactly the road-type base
C24_LocationFormula ==
    \A i \in DOMAIN issues :
        issues[i].priority_breakdown # None =>
            LET a == issues[i].address
                bonus == MatchedBonus(a, Len(FacilityKeywords))
                score == issues[i].priority_breakdown[1].factor_scores.location
            IN  /\ score = Min(1000, RoadTypeBase(a) + Min(300, bonus))
                /\ bonus = 0 => score = RoadTypeBase(a)

\* C24 witness: an address on a street near a hospital and a school (bonuses
\* 3.0 + 2.5, capped at 3.0) has been scored 9.0, next to a lane scored 4.0
C24_Witness ==
    /\ issues[1].address = {"street", "hospital", "school"}
    /\ issues[1].priority_breakdown # None
    /\ issues[1].priority_breakdown[1].factor_scores.location = 900
    /\ issues[2].priority_breakdown # None
    /\ issues[2].priority_breakdown[1].factor_scores.location = 400

\* issue i's created_at lies after `now` or is not an ISO date string
UnusableCreatedAt(i) ==
    \/ issues[i].created_at.kind # "iso"
    \/ issues[i].created_at.day > now

\* C25: an issue whose created_at is in the future or cannot be parsed is
\* scored as of age 0, age score 2.0, and its recompute does not fail
C25_AgeFallback ==
    /\ \A i \in DOMAIN issues :
          (issues[i].priority_breakdown # None /\ UnusableCreatedAt(i)) =>
              issues[i].priority_breakdown[1].factor_scores.age = AgeBucket(0)
    /\ \A p \in Procs :
          (Done(p) /\ req[p].name = "calculate_issue_priority"
              /\ req[p].issue_id \in DOMAIN issues
              /\ UnusableCreatedAt(req[p].issue_id)) =>
            /\ result[p] = "success"
            /\ issues[req[p].issue_id].priority_breakdown # None

\* C25 witness: an issue dated a year after `now` has been recomputed with
\* success and carries age score 2.0
C25_Witness ==
    \E p \in Procs :
        /\ Done(p) /\ req[p].name = "calculate_issue_priority"
        /\ req[p].issue_id = 1 /\ result[p] = "success"
        /\ issues[1].created_at = [kind |-> "iso", day |-> 565]
        /\ issues[1].priority_breakdown # None
        /\ issues[1].priority_breakdown[1].factor_scores.age = 200

\* C26: once a breakdown is stored on an issue, the issue's priority_score
\* and priority_level are the final_score and priority_level of that same
\* breakdown, whatever recomputes of the issue interleave
C26_ScoreLevelOfOneComputation ==
    \A i \in DOMAIN issues :
        issues[i].priority_breakdown # None =>
            /\ issues[i].priority_score
                   = issues[i].priority_breakdown[1].final_score
            /\ issues[i].priority_level
                   = issues[i].priority_breakdown[1].priority_level

\* C26 witness: two requests have computed different breakdowns for issue 1
\* and both have written theirs; the one written last is stored
C26_Witness ==
    \E p \in Procs, q \in Procs :
        /\ pc[p] = "up_log" /\ pc[q] = "up_log"
        /\ req[p].issue_id = 1 /\ req[q].issue_id = 1
        /\ loc[p].priority_data # loc[q].priority_data
        /\ issues[1].priority_breakdown = loc[p].priority_data
        /\ issues[1].priority_score = loc[p].priority_data[1].final_score
        /\ issues[1].priority_score # loc[q].priority_data[1].final_score

\* the priority log entries of issue i, in the order they were appended
LogOf(i) == SelectSeq(priority_logs, LAMBDA e : e.issue_id = i)

\* C27: the priority log of an issue is a chain: each entry's old score and
\* level are the new score and level of the entry appended before it, also
\* when two update_priority_score calls for the issue interleave
C27_LogIsChain ==
    \A i \in DOMAIN issues :
        \A k \in 2..Len(LogOf(i)) :
            /\ LogOf(i)[k].old_priority_score = LogOf(i)[k - 1].new_priority_score
            /\ LogOf(i)[k].old_priority_level = LogOf(i)[k - 1].new_priority_level

\* C28 state part: the store holds exactly the issues it started with, no log
\* entry and no persisted priority names another id, and a vote or duplicate
\* mark whose write succeeded has returned success although a recompute it
\* triggered was for an id the store does not have
UnknownIdLeavesNoTrace ==
    /\ DOMAIN issues = IssueIds
    /\ \A k \in 1..Len(priority_logs) : priority_logs[k].issue_id \in IssueIds
    /\ \A p \in Procs :
          /\ \A k \in 1..Len(hist[p]) :
                hist[p][k].ev = "persist" => hist[p][k].id \in IssueIds
          /\ (Done(p) /\ req[p].name \in {"vote_severity", "mark_duplicate"}
                /\ \E k \in 1..Len(hist[p]) :
                      hist[p][k] = Event("recompute", UnknownId)) =>
              result[p] = "success"

\* C28 step part: the recompute of an id the store does not have changes
\* nothing in the store
UnknownRecomputeWritesNothing ==
    \A p \in Procs :
        (/\ pc[p] = "rc_select"
         /\ Head(loc[p].queue) \notin DOMAIN issues
         /\ hist'[p] # hist[p]) =>
            UNCHANGED store

\* C28: a recompute triggered for an issue id unknown to the store writes
\* nothing (no priority update, no log entry, no new issue record), and the
\* operation that triggered it still completes.
C28_UnknownIdRecompute ==
    [](UnknownIdLeavesNoTrace) /\ [][UnknownRecomputeWritesNothing]_vars

\* C28 witness: a severity vote for the unknown id has stored its row, run
\* its recompute for that id and returned success
C28_Witness ==
    \E p \in Procs :
        /\ Done(p) /\ req[p].name = "vote_severity"
        /\ req[p].issue_id = UnknownId /\ result[p] = "success"
        /\ hist[p] = <<Event("vote_insert", UnknownId),
                       Event("recompute", UnknownId)>>
        /\ VoteRows(citizen_votes, UnknownId, req[p].user_id) # {}

\* the admitted requests of key k with a time in (lo, hi]
AdmittedIn(k, lo, hi) ==
    {i \in 1..Len(admitted) :
        admitted[i].key = k /\ lo < admitted[i].time /\ admitted[i].time <= hi}

\* in the `window` seconds that end with an admitted request, no more than
\* `limit` requests of its (client, endpoint) were admitted
AtMostLimitPerWindow ==
    \A i \in 1..Len(admitted) :
        Cardinality(AdmittedIn(admitted[i].key, admitted[i].time - window,
                               admitted[i].time)) <= limit

\* a call that rejects records nothing: the records inside the window are what
\* they were, and the reset time it reports is `window` after the oldest of
\* them, so that repeating the request does not move it
RejectedNotRecorded ==
    (Len(returned') > Len(returned)
        /\ ~returned'[Len(returned')].is_allowed) =>
      /\ admitted' = admitted
      /\ \A k \in Keys :
            Later(requests'[k], current_time - window)
                = Later(requests[k], current_time - window)
      /\ LET r == returned'[Len(returned')]
             recent == Later(requests[r.key], current_time - window)
         IN  /\ r.remaining = 0
             /\ recent # <<>> => r.reset_time = MinOf(recent) + window

\* C29: is_allowed admits at most `limit` requests of a (client, endpoint)
\* within any span of `window` seconds, also across the cleanup that drops
\* the records older than two hours; a rejected request is not recorded and
\* does not push back the reset time
C29_RateLimitHolds ==
    [](AtMostLimitPerWindow) /\ [][RejectedNotRecorded]_vars

\* the same for windows of at most two hours
C29_HoldsUpToTwoHours ==
    /\ [](window <= cutoff_age => AtMostLimitPerWindow)
    /\ [][window <= cutoff_age => RejectedNotRecorded]_vars

\* the upvote records of issue i
UpvoteRows(i) == {k \in 1..Len(user_upvotes) : user_upvotes[k].issue_id = i}

\* at most one upvote record per (user, issue)
UpvotesUnique ==
    \A k \in 1..Len(user_upvotes), l \in 1..Len(user_upvotes) :
        (user_upvotes[k].user_id = user_upvotes[l].user_id
            /\ user_upvotes[k].issue_id = user_upvotes[l].issue_id) => k = l

\* with no upvote call in progress, every issue's counter is the number of
\* its upvote records
CounterMatchesRecords ==
    (\A p \in Procs : Free(p)) =>
        \A i \in DOMAIN issues : issues[i].upvotes = Cardinality(UpvoteRows(i))

\* worker p has finished an upvote of a pair whose record another call wrote
RepeatedUpvote(p) ==
    /\ Done(p) /\ req[p].name = "upvote"
    /\ FindUpvote(user_upvotes, req[p].issue_id, req[p].user_id) # None
    /\ CountEvents(hist[p], "upvote_insert") = 0

\* a repeated upvote has returned the already-upvoted error
RepeatedUpvoteRefused ==
    \A p \in Procs : RepeatedUpvote(p) => result[p] = "already_upvoted"

\* the step that ends a call with the already-upvoted error or with a failed
\* insert changes no counter and no record
RefusalChangesNothing ==
    \A p \in Procs :
        (pc[p] # "done" /\ pc'[p] = "done" /\ req'[p].name = "upvote"
            /\ CountEvents(hist'[p], "upvote_insert") = 0) =>
          UNCHANGED <<issues, user_upvotes>>

\* C30: after any interleaving of Issue.upvote calls there is at most one
\* upvote record per (user, issue), a repeated upvote by the same user returns
\* the already-upvoted error without changing the counter, and once all calls
\* have finished the issue's counter equals the number of its upvote records
C30_UpvoteOncePerUser ==
    /\ [](UpvotesUnique /\ RepeatedUpvoteRefused /\ CounterMatchesRecords)
    /\ [][RefusalChangesNothing]_vars

\* what holds of C30 in every interleaving: one record per pair, counters that
\* match the records, refusals that change nothing, and the already-upvoted
\* error for every call that found the record
C30_HoldsForCallsAfterTheRecord ==
    /\ [](/\ UpvotesUnique
          /\ CounterMatchesRecords
          /\ \A p \in Procs :
                (RepeatedUpvote(p) /\ loc[p].existing # None) =>
                    result[p] = "already_upvoted")
    /\ [][RefusalChangesNothing]_vars

====
